---------------------------- MODULE Spec2Model ----------------------------
(***************************************************************************)
(* A model of mccn-engine's two entry points:                              *)
(*   - class MCCN (src/mccn/client.py): session construction (catalog     *)
(*     resolve, grid, collection filter) and the load_raster / load_vector *)
(*     / load_point / load operations;                                      *)
(*   - class Mccn (src/mccn/mccn.py): _load_stac and the bbox it records.  *)
(* The collection filter, the grid builder and the three modality loaders  *)
(* are imported by client.py from modules that are not part of the source  *)
(* tree at hand; they are modelled from the specification (section 4).     *)
(***************************************************************************)
EXTENDS Integers, Sequences, FiniteSets, TLC

VARIABLES
    pc,                 \* "new" | "ready" (a session exists) | "failed" (__init__ raised)
    call,               \* the latest operation and its arguments
    collection,         \* self.collection: the catalog's items, in catalog order
    shape,              \* self.shape
    geobox,             \* self.geobox
    asset_key,          \* self.asset_key
    collection_filter,  \* self.collection_filter: the raster / vector / point buckets
    config,             \* the load-configuration fields (x_col ... interp_method)
    trace,              \* the collaborator calls made by the latest operation, in order
    loaded,             \* load()'s local list `items`: the loader outputs collected
    result,             \* what the latest operation returned or raised
    bbox,               \* Mccn.bbox
    stac                \* what the latest Mccn._load_stac call loaded and returned

vars == <<pc, call, collection, shape, geobox, asset_key, collection_filter,
          config, trace, loaded, result, bbox, stac>>

sessionVars == <<pc, call, collection, shape, geobox, asset_key,
                 collection_filter, config, trace, loaded, result>>

stacVars == <<bbox, stac>>

-----------------------------------------------------------------------------
(* Bounds *)

\* the longest catalog handed to the collection filter on its own
MaxItems == 2

\* the longest catalog of a session that goes on to load
MaxSessionItems == 3

-----------------------------------------------------------------------------
(* Values *)

\* Python's None for an optional sequence-valued argument or field
None == <<>>

\* Python's None for the optional grid
NoGeobox == [extent |-> {}, shape |-> <<>>]

Modalities == {"raster", "vector", "point"}

\* what an asset descriptor may carry as its tag; "other" is no modality
Tags == Modalities \cup {"other"}

\* the grid covers some of these regions; an item's bounding box lies in one
Regions == {"west", "east"}

\* client.py lines 14 and 30: the default asset key (mccn.loader.utils.ASSET_KEY)
ASSET_KEY == "data"

\* the names assets get in an item's asset map, by insertion position
AssetName(i) == IF i = 1 THEN "a1" ELSE "a2"

AssetNames == {AssetName(1), AssetName(2)}

\* an asset map in insertion order: the tag each descriptor carries under ASSET_KEY
AssetMaps == {<<>>} \cup {<<t>> : t \in Tags} \cup {<<t, u>> : t \in Tags, u \in Tags}

Items == [bbox : Regions, assets : AssetMaps]

\* the items of the catalogs that sessions load from: one of each modality, the
\* vector one outside a caller's western grid, and one with no recognized asset
SessionItems ==
    {[bbox |-> "west", assets |-> <<"raster">>],
     [bbox |-> "east", assets |-> <<"vector">>],
     [bbox |-> "west", assets |-> <<"point">>],
     [bbox |-> "west", assets |-> <<"other">>]}

RECURSIVE SeqsUpTo(_, _)
SeqsUpTo(S, n) ==
    IF n = 0 THEN {<<>>}
    ELSE LET shorter == SeqsUpTo(S, n - 1)
         IN  shorter \cup {Append(s, x) : s \in {t \in shorter : Len(t) = n - 1}, x \in S}

Catalogs == SeqsUpTo(Items, MaxItems)

SessionCatalogs == SeqsUpTo(SessionItems, MaxSessionItems)

\* asset_key argument (client.py line 30): one shared key name (kind "str"), or a
\* mapping from asset name to key name (kind "map")
SharedKey(k) == [kind |-> "str", key |-> k, map |-> [n \in AssetNames |-> k]]

AssetKeyArgs ==
    {SharedKey(ASSET_KEY), SharedKey("alt"),
     [kind |-> "map", key |-> "",
      map |-> [n \in AssetNames |-> IF n = AssetName(1) THEN "alt" ELSE ASSET_KEY]]}

NoAssetKey == SharedKey("")

\* the catalog endpoints a session can be pointed at
Urls == {"http://stac.example/api", "catalog.json"}

\* endpoint.startswith("http")
startswith_http(url) == url = "http://stac.example/api"

Endpoints == [url : Urls, reachable : BOOLEAN, has_collection : BOOLEAN]

\* a caller-supplied grid, and the shapes a caller can ask for
WestGeobox == [extent |-> {"west"}, shape |-> <<1, 1>>]

GeoboxArgs == {NoGeobox, WestGeobox}

ShapeArgs == {None, <<1>>, <<1, 2>>}

\* the grids a filter can be built on: a caller's, or one derived from the collection
Grids == {WestGeobox, [extent |-> Regions, shape |-> <<1, 1>>]}

\* the spatial extent a collection declares: all the regions its items lie in
CollectionExtent == Regions

DefaultConfig ==
    [x_col |-> "x", y_col |-> "y", t_col |-> "time", bands |-> None,
     groupby |-> "id", vector_fields |-> None, alias_renaming |-> None,
     point_fields |-> None, merge_method |-> "mean", interp_method |-> "nearest"]

Configs == {DefaultConfig, [DefaultConfig EXCEPT !.x_col = "lon", !.y_col = "lat",
                                                  !.merge_method = "max"]}

\* the argument lists sessions are constructed with: every endpoint with the
\* defaults and with or without a shape, and a local catalog with a caller's grid
SessionArgs ==
    [endpoint : Endpoints, geobox : {NoGeobox}, shape : {None, <<1>>},
     asset_key : {SharedKey(ASSET_KEY)}, config : {DefaultConfig}]
    \cup
    [endpoint : {[url |-> "catalog.json", reachable |-> TRUE, has_collection |-> TRUE]},
     geobox : {WestGeobox}, shape : {None, <<1, 2>>},
     asset_key : AssetKeyArgs \ {SharedKey(ASSET_KEY)}, config : Configs \ {DefaultConfig}]

\* the configuration fields before __init__ has assigned them
NoConfig ==
    [x_col |-> "", y_col |-> "", t_col |-> "", bands |-> None,
     groupby |-> "", vector_fields |-> None, alias_renaming |-> None,
     point_fields |-> None, merge_method |-> "", interp_method |-> ""]

-----------------------------------------------------------------------------
(* mccn.filter.CollectionFilter, from the specification (4.3) *)

\* the key under which an asset's modality tag is looked up
KeyFor(ak, name) == IF ak.kind = "str" THEN ak.key ELSE ak.map[name]

\* the tag asset i of the item resolves to: the descriptors of the modelled
\* catalogs carry their tag under ASSET_KEY and nothing under any other key
TagOf(item, i, ak) ==
    IF KeyFor(ak, AssetName(i)) = ASSET_KEY THEN item.assets[i] ELSE "other"

\* spatial pre-filter: the item's bounding box intersects the grid's extent
InGrid(item, grid) == item.bbox \in grid.extent

\* the first recognized modality in the insertion order of the asset map
ModalityOf(item, ak) ==
    LET recognized == {i \in DOMAIN item.assets : TagOf(item, i, ak) \in Modalities}
    IN  IF recognized = {} THEN "none"
        ELSE TagOf(item, CHOOSE i \in recognized : \A j \in recognized : i <= j, ak)

\* a bucket that takes every item with an asset of the modality, first or not
Bucket_any(items, grid, ak, m) ==
    SelectSeq([i \in 1 .. Len(items) |-> i],
              LAMBDA i : /\ InGrid(items[i], grid)
                         /\ \E k \in DOMAIN items[i].assets : TagOf(items[i], k, ak) = m)

\* a bucket built without the spatial pre-filter
Bucket_nofilter(items, grid, ak, m) ==
    SelectSeq([i \in 1 .. Len(items) |-> i], LAMBDA i : ModalityOf(items[i], ak) = m)

\* the identifiers (catalog positions) of the items of one modality, in catalog order
Bucket(items, grid, ak, m) ==
    SelectSeq([i \in 1 .. Len(items) |-> i],
              LAMBDA i : InGrid(items[i], grid) /\ ModalityOf(items[i], ak) = m)

classify(items, grid, ak) ==
    [raster |-> Bucket(items, grid, ak, "raster"),
     vector |-> Bucket(items, grid, ak, "vector"),
     point  |-> Bucket(items, grid, ak, "point")]

EmptyFilter == [raster |-> <<>>, vector |-> <<>>, point |-> <<>>]

-----------------------------------------------------------------------------
(* mccn.extent.GeoBoxBuilder, from the specification (4.2) *)

\* a single edge length applies to both axes; the extent is the collection's
from_collection(items, shp) ==
    [extent |-> CollectionExtent,
     shape  |-> IF Len(shp) = 1 THEN <<shp[1], shp[1]>> ELSE shp]

-----------------------------------------------------------------------------
(* class MCCN, client.py: construction *)

\* MCCN.get_collection: the client calls made, and the error raised ("" if none)
get_collection(endpoint) ==
    LET open == IF startswith_http(endpoint.url) THEN "Client.open"
                ELSE "Client.from_file"
    IN  IF ~endpoint.reachable
        THEN [trace |-> <<open>>, error |-> "CatalogUnavailable"]
        ELSE IF ~endpoint.has_collection
        THEN [trace |-> <<open, "get_collection">>, error |-> "CollectionNotFound"]
        ELSE [trace |-> <<open, "get_collection">>, error |-> ""]

\* MCCN.get_geobox
get_geobox(items, gb, shp) ==
    IF gb # NoGeobox THEN [trace |-> <<>>, error |-> "", geobox |-> gb]
    ELSE IF shp = None THEN [trace |-> <<>>, error |-> "ValueError", geobox |-> NoGeobox]
    ELSE [trace |-> <<"GeoBoxBuilder.from_collection">>, error |-> "",
          geobox |-> from_collection(items, shp)]

\* the fields of a session before __init__ has assigned any
Unbuilt ==
    [collection |-> None, shape |-> None, geobox |-> NoGeobox,
     asset_key |-> NoAssetKey, collection_filter |-> EmptyFilter, config |-> NoConfig]

\* a constructor that derives the grid before it resolves the catalog
MCCN_init_grid_first(endpoint, items, gb, shp, ak, cfg) ==
    LET c == get_collection(endpoint)
        g == get_geobox(items, gb, shp)
    IN  IF g.error # ""
        THEN [fields |-> [Unbuilt EXCEPT !.shape = shp], trace |-> g.trace,
              error |-> g.error]
        ELSE IF c.error # ""
        THEN [fields |-> Unbuilt, trace |-> g.trace \o c.trace, error |-> c.error]
        ELSE [fields |-> [collection |-> items, shape |-> shp, geobox |-> g.geobox,
                          asset_key |-> ak,
                          collection_filter |-> classify(items, g.geobox, ak),
                          config |-> cfg],
              trace |-> g.trace \o c.trace \o <<"CollectionFilter">>,
              error |-> ""]

\* MCCN.__init__: the fields assigned, the calls made in order, the error raised
MCCN_init(endpoint, items, gb, shp, ak, cfg) ==
    LET c == get_collection(endpoint)
        g == get_geobox(items, gb, shp)
    IN  IF c.error # ""
        THEN [fields |-> Unbuilt, trace |-> c.trace, error |-> c.error]
        ELSE IF g.error # ""
        THEN [fields |-> [Unbuilt EXCEPT !.collection = items, !.shape = shp],
              trace |-> c.trace \o g.trace, error |-> g.error]
        ELSE [fields |-> [collection |-> items, shape |-> shp, geobox |-> g.geobox,
                          asset_key |-> ak,
                          collection_filter |-> classify(items, g.geobox, ak),
                          config |-> cfg],
              trace |-> c.trace \o g.trace \o <<"CollectionFilter">>,
              error |-> ""]

NoResult == [status |-> "none", error |-> "", value |-> <<>>]

NoCall == [op |-> "", endpoint |-> [url |-> "", reachable |-> FALSE, has_collection |-> FALSE],
           geobox |-> NoGeobox, shape |-> None]

\* MCCN(endpoint, collection_id, geobox, shape, asset_key, ...): the endpoint
\* serves a catalog of SessionCatalogs
NewSession ==
    /\ pc = "new"
    /\ \E items \in SessionCatalogs, a \in SessionArgs :
          LET r == MCCN_init(a.endpoint, items, a.geobox, a.shape, a.asset_key, a.config)
          IN  /\ pc' = IF r.error = "" THEN "ready" ELSE "failed"
              /\ call' = [op |-> "__init__", endpoint |-> a.endpoint,
                          geobox |-> a.geobox, shape |-> a.shape]
              /\ collection' = r.fields.collection
              /\ shape' = r.fields.shape
              /\ geobox' = r.fields.geobox
              /\ asset_key' = r.fields.asset_key
              /\ collection_filter' = r.fields.collection_filter
              /\ config' = r.fields.config
              /\ trace' = r.trace
              /\ loaded' = <<>>
              /\ result' = IF r.error = "" THEN [NoResult EXCEPT !.status = "ok"]
                           ELSE [NoResult EXCEPT !.status = "error", !.error = r.error]
    /\ UNCHANGED stacVars

-----------------------------------------------------------------------------
(* The modality loaders of mccn.loader, from the specification (4.4): opaque   *)
(* collaborators that borrow the bucket, the grid and the configuration and    *)
(* either fail or return a new structure of data variables.                    *)

VarNames == {"red", "height"}

\* a data variable's content at a cell of the shared grid; "nan" is missing data
Values == {"nan", "v1", "v2"}

Var(n, v) == [name |-> n, val |-> v]

\* the output structures loaders return: their data variables in order. Enough
\* to have two loaders return one name with equal, with differing and with
\* missing content, and two loaders return different names
Datasets ==
    {<<Var("red", "v1")>>, <<Var("red", "v2")>>, <<Var("red", "nan")>>,
     <<Var("height", "v1")>>}

\* what one loader call does: raises (error # "") or returns a structure
LoaderOutcomes ==
    {[error |-> "", value |-> d] : d \in Datasets}
        \cup {[error |-> "LoadError", value |-> <<>>]}

\* a loader that is not called has no outcome
NotCalled == [error |-> "not called", value |-> <<>>]

\* the outcomes of the loader of a bucket within load()
OutcomesFor(bucket) == IF bucket = <<>> THEN {NotCalled} ELSE LoaderOutcomes

DataVars(ds) == {ds[i].name : i \in DOMAIN ds}

-----------------------------------------------------------------------------
(* xarray.merge as client.py line 170 calls it: the default compat,           *)
(* "no_conflicts", and the default outer join                                 *)

\* no_conflicts: two contents of one name agree wherever both are present
Compatible(a, b) == a = "nan" \/ b = "nan" \/ a = b

\* fillna: the first content, its missing data filled from the second
Combine(a, b) == IF a = "nan" THEN b ELSE a

RECURSIVE Flatten(_)
Flatten(objs) == IF objs = <<>> THEN <<>> ELSE Head(objs) \o Flatten(Tail(objs))

\* the contents given to one name, in the order the objects give them
ContentsOf(vs, n) ==
    LET named == SelectSeq(vs, LAMBDA v : v.name = n)
    IN  [i \in 1 .. Len(named) |-> named[i].val]

\* the positions where a name occurs for the first time: the merged variables' order
FirstOccurrences(vs) ==
    SelectSeq([i \in 1 .. Len(vs) |-> i],
              LAMBDA i : \A j \in 1 .. (i - 1) : vs[j].name # vs[i].name)

RECURSIVE Fillna(_, _)
Fillna(out, rest) ==
    IF rest = <<>> THEN out ELSE Fillna(Combine(out, Head(rest)), Tail(rest))

\* xarray's unique_variable: every later content is compared with the first one,
\* and, if none conflicts with it, filled into it in turn
unique_variable(contents) ==
    IF \E i \in 2 .. Len(contents) : ~Compatible(contents[1], contents[i])
    THEN [error |-> "MergeError", val |-> "nan"]
    ELSE [error |-> "", val |-> Fillna(contents[1], Tail(contents))]

\* a merge that resolves a repeated name by taking its first content (compat="override")
xr_merge_override(objs) ==
    LET vs == Flatten(objs)
        first == FirstOccurrences(vs)
    IN  [error |-> "", value |-> [k \in 1 .. Len(first) |-> vs[first[k]]]]

\* a merge that refuses an empty list of objects
xr_merge_nonempty(objs) ==
    LET vs == Flatten(objs)
        first == FirstOccurrences(vs)
        merged(n) == unique_variable(ContentsOf(vs, n))
    IN  IF objs = <<>> THEN [error |-> "ValueError", value |-> <<>>]
        ELSE IF \E i \in DOMAIN vs : merged(vs[i].name).error # ""
        THEN [error |-> "MergeError", value |-> <<>>]
        ELSE [error |-> "",
              value |-> [k \in 1 .. Len(first) |->
                            Var(vs[first[k]].name, merged(vs[first[k]].name).val)]]

\* a merge that keeps the variables of the last object only
xr_merge_last(objs) ==
    [error |-> "", value |-> IF objs = <<>> THEN <<>> ELSE objs[Len(objs)]]

\* xr.merge(objs): the merged structure, or MergeError
xr_merge(objs) ==
    LET vs == Flatten(objs)
        first == FirstOccurrences(vs)
        merged(n) == unique_variable(ContentsOf(vs, n))
    IN  IF \E i \in DOMAIN vs : merged(vs[i].name).error # ""
        THEN [error |-> "MergeError", value |-> <<>>]
        ELSE [error |-> "",
              value |-> [k \in 1 .. Len(first) |->
                            Var(vs[first[k]].name, merged(vs[first[k]].name).val)]]

-----------------------------------------------------------------------------
(* class MCCN, client.py: the load operations *)

\* a step that calls the loader of an empty bucket too
LoadStep_always(acc, bucket, loader, outcome) ==
    LET o == IF outcome.error = "not called" THEN [error |-> "", value |-> <<>>]
             ELSE outcome
    IN  IF acc.error # "" THEN acc
        ELSE IF o.error # ""
        THEN [acc EXCEPT !.trace = Append(@, loader), !.error = o.error]
        ELSE [acc EXCEPT !.trace = Append(@, loader), !.items = Append(@, o.value)]

\* a step that catches the loader's error and goes on to the next modality
LoadStep_swallow(acc, bucket, loader, outcome) ==
    IF acc.error # "" \/ bucket = <<>> THEN acc
    ELSE IF outcome.error # ""
    THEN [acc EXCEPT !.trace = Append(@, loader)]
    ELSE [acc EXCEPT !.trace = Append(@, loader), !.items = Append(@, outcome.value)]

\* one `if bucket: items.append(loader(...))` statement of MCCN.load
LoadStep(acc, bucket, loader, outcome) ==
    IF acc.error # "" \/ bucket = <<>> THEN acc
    ELSE IF outcome.error # ""
    THEN [acc EXCEPT !.trace = Append(@, loader), !.error = outcome.error]
    ELSE [acc EXCEPT !.trace = Append(@, loader), !.items = Append(@, outcome.value)]

\* MCCN.load with the three loaders behaving as r, v and p: the loader calls in
\* order, the list collected, and what is returned or raised
MCCN_load(cf, r, v, p) ==
    LET s0 == [trace |-> <<>>, items |-> <<>>, error |-> ""]
        s1 == LoadStep(s0, cf.raster, "stac_load_raster", r)
        s2 == LoadStep(s1, cf.vector, "stac_load_vector", v)
        s3 == LoadStep(s2, cf.point, "stac_load_point", p)
        m  == xr_merge(s3.items)
    IN  IF s3.error # ""
        THEN [trace |-> s3.trace, items |-> s3.items,
              result |-> [status |-> "error", error |-> s3.error, value |-> <<>>]]
        ELSE IF m.error # ""
        THEN [trace |-> Append(s3.trace, "xr.merge"), items |-> s3.items,
              result |-> [status |-> "error", error |-> m.error, value |-> <<>>]]
        ELSE [trace |-> Append(s3.trace, "xr.merge"), items |-> s3.items,
              result |-> [status |-> "ok", error |-> "", value |-> m.value]]

\* MCCN.load_raster / load_vector / load_point: the loader is called whatever
\* the bucket holds, and its outcome is the operation's
LoadOne(op, loader) ==
    /\ pc = "ready"
    /\ \E o \in LoaderOutcomes :
          /\ call' = [NoCall EXCEPT !.op = op]
          /\ trace' = <<loader>>
          /\ loaded' = <<>>
          /\ result' = IF o.error # ""
                       THEN [status |-> "error", error |-> o.error, value |-> <<>>]
                       ELSE [status |-> "ok", error |-> "", value |-> o.value]
    /\ UNCHANGED <<pc, collection, shape, geobox, asset_key, collection_filter, config>>
    /\ UNCHANGED stacVars

load_raster == LoadOne("load_raster", "stac_load_raster")

load_vector == LoadOne("load_vector", "stac_load_vector")

load_point == LoadOne("load_point", "stac_load_point")

\* a load that consumes the buckets it has loaded
load_draining ==
    /\ pc = "ready"
    /\ \E r \in OutcomesFor(collection_filter.raster),
          v \in OutcomesFor(collection_filter.vector),
          p \in OutcomesFor(collection_filter.point) :
          LET out == MCCN_load(collection_filter, r, v, p)
          IN  /\ call' = [NoCall EXCEPT !.op = "load"]
              /\ trace' = out.trace
              /\ loaded' = out.items
              /\ result' = out.result
    /\ collection_filter' = EmptyFilter
    /\ UNCHANGED <<pc, collection, shape, geobox, asset_key, config>>
    /\ UNCHANGED stacVars

load ==
    /\ pc = "ready"
    /\ \E r \in OutcomesFor(collection_filter.raster),
          v \in OutcomesFor(collection_filter.vector),
          p \in OutcomesFor(collection_filter.point) :
          LET out == MCCN_load(collection_filter, r, v, p)
          IN  /\ call' = [NoCall EXCEPT !.op = "load"]
              /\ trace' = out.trace
              /\ loaded' = out.items
              /\ result' = out.result
    /\ UNCHANGED <<pc, collection, shape, geobox, asset_key, collection_filter, config>>
    /\ UNCHANGED stacVars

\* CollectionFilter(collection, geobox, asset_key) on its own (client.py lines
\* 52-54), on the items, grid and asset key the initial state holds
BuildFilter ==
    /\ pc = "unfiltered"
    /\ pc' = "filtered"
    /\ collection_filter' = classify(collection, geobox, asset_key)
    /\ trace' = <<"CollectionFilter">>
    /\ UNCHANGED <<call, collection, shape, geobox, asset_key, config, loaded, result>>
    /\ UNCHANGED stacVars

-----------------------------------------------------------------------------
(* class Mccn, mccn.py *)

AxisNames == {"x", "y", "longitude", "latitude"}

\* the coordinates an axis can hold, as of the extent [-10, -10, 10, 10]
Coords == {-10, 10}

\* the coordinate values of one index of a loaded dataset; {} if it has no such index
AxisValues == SUBSET Coords

\* the indexes (xx.xindexes) of what odc.stac's stac_load returns
LoadedIndexes == [AxisNames -> AxisValues]

Has(xx, axis) == xx[axis] # {}

Min(S) == CHOOSE m \in S : \A n \in S : m <= n

Max(S) == CHOOSE m \in S : \A n \in S : m >= n

\* a bbox taken from longitude / latitude first
load_stac_bbox_lonlat_first(xx, old) ==
    IF Has(xx, "longitude") /\ Has(xx, "latitude")
    THEN [bbox |-> <<Min(xx["longitude"]), Min(xx["latitude"]),
                     Max(xx["longitude"]), Max(xx["latitude"])>>,
          error |-> ""]
    ELSE IF Has(xx, "x") /\ Has(xx, "y")
    THEN [bbox |-> <<Min(xx["x"]), Min(xx["y"]), Max(xx["x"]), Max(xx["y"])>>,
          error |-> ""]
    ELSE [bbox |-> old, error |-> "AttributeError"]

\* Mccn._load_stac from the point stac_load has returned xx (lines 50-64):
\* the bbox assigned and the error raised
load_stac_bbox(xx, old) ==
    IF Has(xx, "x") /\ Has(xx, "y")
    THEN [bbox |-> <<Min(xx["x"]), Min(xx["y"]), Max(xx["x"]), Max(xx["y"])>>,
          error |-> ""]
    ELSE IF Has(xx, "longitude") /\ Has(xx, "latitude")
    THEN [bbox |-> <<Min(xx["longitude"]), Min(xx["latitude"]),
                     Max(xx["longitude"]), Max(xx["latitude"])>>,
          error |-> ""]
    ELSE [bbox |-> old, error |-> "AttributeError"]

NoIndexes == [a \in AxisNames |-> {}]

\* Mccn._load_stac: stac_load fails, or returns a dataset with some indexes
load_stac ==
    /\ \/ /\ stac' = [status |-> "error", error |-> "LoadError", xx |-> NoIndexes]
          /\ bbox' = bbox
       \/ \E xx \in LoadedIndexes :
             LET r == load_stac_bbox(xx, bbox)
             IN  /\ bbox' = r.bbox
                 /\ stac' = [status |-> IF r.error = "" THEN "ok" ELSE "error",
                             error |-> r.error, xx |-> xx]
    /\ UNCHANGED sessionVars

-----------------------------------------------------------------------------
(* Specifications *)

Init ==
    /\ pc = "new"
    /\ call = NoCall
    /\ collection = Unbuilt.collection
    /\ shape = Unbuilt.shape
    /\ geobox = Unbuilt.geobox
    /\ asset_key = Unbuilt.asset_key
    /\ collection_filter = Unbuilt.collection_filter
    /\ config = Unbuilt.config
    /\ trace = <<>>
    /\ loaded = <<>>
    /\ result = NoResult
    /\ bbox = None
    /\ stac = [status |-> "none", error |-> "", xx |-> NoIndexes]

\* a session of class MCCN: construction, then any sequence of load operations
Next == NewSession \/ load_raster \/ load_vector \/ load_point \/ load

Spec == Init /\ [][Next]_vars

\* an object of class Mccn (bbox = None after __init__) under repeated _load_stac
NextStac == load_stac

SpecStac == Init /\ [][NextStac]_vars

\* the collection filter as a function of its inputs: every catalog of Catalogs,
\* grid and asset key
InitClassify ==
    /\ pc = "unfiltered"
    /\ call = NoCall
    /\ collection \in Catalogs
    /\ shape = None
    /\ geobox \in Grids
    /\ asset_key \in AssetKeyArgs
    /\ collection_filter = EmptyFilter
    /\ config = DefaultConfig
    /\ trace = <<>>
    /\ loaded = <<>>
    /\ result = NoResult
    /\ bbox = None
    /\ stac = [status |-> "none", error |-> "", xx |-> NoIndexes]

NextClassify == BuildFilter

SpecClassify == InitClassify /\ [][NextClassify]_vars

-----------------------------------------------------------------------------
(* Session construction *)

CatalogCalls == {"Client.open", "Client.from_file", "get_collection"}

\* the latest operation is a construction with neither a grid nor a shape
NoGridNoShape ==
    call.op = "__init__" /\ call.geobox = NoGeobox /\ call.shape = None

Elems(sq) == {sq[i] : i \in DOMAIN sq}

\* C1 as stated: constructed with neither a grid nor a shape, the session fails
\* with the configuration error before any catalog call has been made
C1_ErrorBeforeCatalog ==
    (NoGridNoShape /\ result.error = "ValueError")
        => Elems(trace) \cap CatalogCalls = {}

\* C1 amended: constructed with neither a grid nor a shape, the session always
\* fails, and without a grid-builder, collection-filter or loader call; but the
\* catalog is resolved first: the configuration error is raised right after the
\* endpoint was opened and the collection fetched, and if the catalog resolve
\* fails, its error is raised instead
C1_ErrorAfterCatalog ==
    NoGridNoShape =>
        /\ pc = "failed"
        /\ Elems(trace) \subseteq CatalogCalls
        /\ IF call.endpoint.reachable /\ call.endpoint.has_collection
           THEN /\ result.error = "ValueError"
                /\ Len(trace) = 2
                /\ trace[1] \in {"Client.open", "Client.from_file"}
                /\ trace[2] = "get_collection"
           ELSE result.error \in {"CatalogUnavailable", "CollectionNotFound"}

C1_Witness ==
    /\ NoGridNoShape
    /\ pc = "failed"
    /\ result.error = "ValueError"
    /\ trace = <<"Client.open", "get_collection">>

-----------------------------------------------------------------------------
(* load() *)

Loaders == {"stac_load_raster", "stac_load_vector", "stac_load_point"}

\* the loader calls of a trace, in order
LoaderCalls(tr) == SelectSeq(tr, LAMBDA e : e \in Loaders)

\* the loaders of the non-empty buckets, in the order raster, vector, point
Expected(cf) ==
    (IF cf.raster # <<>> THEN <<"stac_load_raster">> ELSE <<>>)
        \o (IF cf.vector # <<>> THEN <<"stac_load_vector">> ELSE <<>>)
        \o (IF cf.point # <<>> THEN <<"stac_load_point">> ELSE <<>>)

IsPrefix(a, b) == Len(a) <= Len(b) /\ \A i \in DOMAIN a : a[i] = b[i]

\* the latest operation is load(), and one of its loader calls raised
LoaderFailed == call.op = "load" /\ Len(LoaderCalls(trace)) > Len(loaded)

\* C2: load() calls the loaders of exactly the non-empty buckets, each once, in
\* the order raster, vector, point, and the list it merges has one entry per
\* non-empty bucket; a load() that a loader's failure cuts short has called a
\* prefix of them
C2_LoadersOfNonEmptyBuckets ==
    call.op = "load" =>
        /\ IsPrefix(LoaderCalls(trace), Expected(collection_filter))
        /\ ~LoaderFailed =>
              /\ LoaderCalls(trace) = Expected(collection_filter)
              /\ Len(loaded) = Len(Expected(collection_filter))
              /\ trace = Expected(collection_filter) \o <<"xr.merge">>

\* raster and vector buckets filled, the point bucket empty, an item in no bucket
C2_Witness ==
    /\ call.op = "load"
    /\ collection_filter.raster # <<>>
    /\ collection_filter.vector # <<>>
    /\ collection_filter.point = <<>>
    /\ Len(collection) > Len(collection_filter.raster) + Len(collection_filter.vector)
    /\ trace = <<"stac_load_raster", "stac_load_vector", "xr.merge">>
    /\ Len(loaded) = 2

\* two of the structures collected hold a variable of one name
SameName ==
    \E i, j \in DOMAIN loaded : i < j /\ DataVars(loaded[i]) \cap DataVars(loaded[j]) # {}

\* the variables collected, in order
Collected == Flatten(loaded)

\* a later variable differs from the first variable of its name where both hold data
ConflictWithFirst ==
    \E i, j \in DOMAIN Collected :
        /\ i < j
        /\ Collected[i].name = Collected[j].name
        /\ \A k \in 1 .. (i - 1) : Collected[k].name # Collected[i].name
        /\ Collected[i].val # "nan"
        /\ Collected[j].val # "nan"
        /\ Collected[i].val # Collected[j].val

\* C3 as stated: if two loaders return a variable of one name, load() fails with
\* the variable-conflict error and returns nothing, whatever the values
C3_SameNameAlwaysFails ==
    (call.op = "load" /\ ~LoaderFailed /\ SameName)
        => (result.status = "error" /\ result.error = "MergeError" /\ result.value = <<>>)

\* C3 amended: when loaders return a variable of one name, load() fails with the
\* merge error, and returns nothing, exactly if a later variable differs from the
\* first one of its name where both hold data; otherwise load() succeeds and the
\* result holds the name once
C3_ConflictingValuesFail ==
    (call.op = "load" /\ ~LoaderFailed) =>
        /\ (result.error = "MergeError") <=> ConflictWithFirst
        /\ result.status = "error" => result.value = <<>>
        /\ result.status = "ok" =>
              /\ Len(result.value) = Cardinality(DataVars(result.value))
              /\ DataVars(result.value) = DataVars(Collected)

C3_Witness ==
    /\ call.op = "load"
    /\ SameName
    /\ ConflictWithFirst
    /\ result.error = "MergeError"
    /\ result.value = <<>>

\* C4: a loader failing within load() ends the call: load() raises the loader's
\* error, the failed loader was called once and last, no later loader is called,
\* nothing is merged and nothing is returned
C4_LoaderFailureAborts ==
    LoaderFailed =>
        /\ result.status = "error"
        /\ result.error = "LoadError"
        /\ result.value = <<>>
        /\ "xr.merge" \notin Elems(trace)
        /\ Len(LoaderCalls(trace)) = Len(loaded) + 1
        /\ IsPrefix(trace, Expected(collection_filter))

\* the raster loader succeeded, the vector loader failed, the point bucket is not empty
C4_Witness ==
    /\ LoaderFailed
    /\ trace = <<"stac_load_raster", "stac_load_vector">>
    /\ Len(loaded) = 1
    /\ collection_filter.point # <<>>
    /\ result.error = "LoadError"

\* C5: with the three buckets empty, load() calls no loader and returns an
\* empty structure, not an error
C5_EmptyBucketsEmptyResult ==
    (call.op = "load" /\ collection_filter = EmptyFilter) =>
        /\ LoaderCalls(trace) = <<>>
        /\ loaded = <<>>
        /\ result = [status |-> "ok", error |-> "", value |-> <<>>]

\* a catalog with items, none of which reaches a bucket
C5_Witness ==
    /\ call.op = "load"
    /\ collection # <<>>
    /\ collection_filter = EmptyFilter
    /\ result.status = "ok"

\* exactly two buckets are non-empty
TwoBuckets == Len(Expected(collection_filter)) = 2

\* C6: with two buckets non-empty and their loaders returning variables of
\* different names, load() has called both loaders and the result's variables are
\* the union of the two structures' variables, each once
C6_DisjointUnion ==
    (/\ call.op = "load"
     /\ TwoBuckets
     /\ Len(loaded) = 2
     /\ DataVars(loaded[1]) \cap DataVars(loaded[2]) = {})
        => /\ LoaderCalls(trace) = Expected(collection_filter)
           /\ result.status = "ok"
           /\ DataVars(result.value) = DataVars(loaded[1]) \cup DataVars(loaded[2])
           /\ Len(result.value) = Cardinality(DataVars(result.value))

C6_Witness ==
    /\ call.op = "load"
    /\ TwoBuckets
    /\ Len(loaded) = 2
    /\ DataVars(loaded[1]) \cap DataVars(loaded[2]) = {}
    /\ DataVars(result.value) = VarNames

-----------------------------------------------------------------------------
(* The collection filter *)

Filtered == pc = "filtered"

ItemIds == 1 .. Len(collection)

\* how often the item occurs in the bucket
Occurrences(bucket, i) == Cardinality({k \in DOMAIN bucket : bucket[k] = i})

InBucket(m, i) == Occurrences(collection_filter[m], i) > 0

\* the modality tags the item's assets resolve to under the session's asset key
TagsOf(i) ==
    {TagOf(collection[i], k, asset_key) : k \in DOMAIN collection[i].assets}
        \cap Modalities

\* asset k carries the first recognized modality of the item
FirstRecognized(i, k) ==
    /\ TagOf(collection[i], k, asset_key) \in Modalities
    /\ \A j \in 1 .. (k - 1) : TagOf(collection[i], j, asset_key) \notin Modalities

Intersects(i) == collection[i].bbox \in geobox.extent

\* no item is in two buckets or twice in one
AtMostOneBucket ==
    \A i \in ItemIds :
        /\ \A m \in Modalities : Occurrences(collection_filter[m], i) <= 1
        /\ \A m, n \in Modalities : (InBucket(m, i) /\ InBucket(n, i)) => m = n

\* an item in a bucket is there for the first recognized modality of its asset map
FirstModalityWins ==
    \A i \in ItemIds : \A m \in Modalities :
        InBucket(m, i) =>
            \E k \in DOMAIN collection[i].assets :
                FirstRecognized(i, k) /\ TagOf(collection[i], k, asset_key) = m

\* C7 as stated: every item is in at most one bucket, that of the first
\* recognized modality of its asset map, and an item with a raster asset and no
\* vector or point asset is in the raster bucket and in no other
C7_RasterOnlyInRaster ==
    Filtered =>
        /\ AtMostOneBucket
        /\ FirstModalityWins
        /\ \A i \in ItemIds :
              TagsOf(i) = {"raster"} =>
                  (InBucket("raster", i) /\ ~InBucket("vector", i) /\ ~InBucket("point", i))

\* C7 amended: every item is in at most one bucket, that of the first recognized
\* modality of its asset map; an item with a raster asset and no vector or point
\* asset is in no bucket but the raster one, and is in the raster bucket exactly
\* if it intersects the grid
C7_RasterOnlyInRasterIfInGrid ==
    Filtered =>
        /\ AtMostOneBucket
        /\ FirstModalityWins
        /\ \A i \in ItemIds :
              TagsOf(i) = {"raster"} =>
                  /\ InBucket("raster", i) <=> Intersects(i)
                  /\ ~InBucket("vector", i)
                  /\ ~InBucket("point", i)

\* one item with a vector asset before a raster asset, one raster item outside the grid
C7_Witness ==
    /\ Filtered
    /\ \E i \in ItemIds :
          /\ TagsOf(i) = {"vector", "raster"}
          /\ FirstRecognized(i, 1)
          /\ InBucket("vector", i)
    /\ \E i \in ItemIds : TagsOf(i) = {"raster"} /\ ~Intersects(i)

BucketTotal ==
    Len(collection_filter.raster) + Len(collection_filter.vector)
        + Len(collection_filter.point)

NoBucket(i) == \A m \in Modalities : ~InBucket(m, i)

\* C8 as stated: the bucket sizes sum to at most the item count, to the item
\* count exactly if every item has an asset of a recognized modality, and an
\* item with none is in no bucket
C8_TotalIffAllRecognized ==
    Filtered =>
        /\ BucketTotal <= Len(collection)
        /\ (BucketTotal = Len(collection)) <=> (\A i \in ItemIds : TagsOf(i) # {})
        /\ \A i \in ItemIds : TagsOf(i) = {} => NoBucket(i)

\* C8 amended: the bucket sizes sum to at most the item count, to the item count
\* exactly if every item intersects the grid and has an asset of a recognized
\* modality; an item with no such asset, or outside the grid, is in no bucket
C8_TotalIffAllRecognizedInGrid ==
    Filtered =>
        /\ BucketTotal <= Len(collection)
        /\ (BucketTotal = Len(collection))
              <=> (\A i \in ItemIds : TagsOf(i) # {} /\ Intersects(i))
        /\ \A i \in ItemIds : (TagsOf(i) = {} \/ ~Intersects(i)) => NoBucket(i)

\* two items, one in a bucket, one with no recognized asset and in none
C8_Witness ==
    /\ Filtered
    /\ Len(collection) = 2
    /\ BucketTotal = 1
    /\ \E i \in ItemIds : TagsOf(i) = {} /\ Intersects(i) /\ NoBucket(i)

-----------------------------------------------------------------------------
(* The session's fields under the load operations *)

\* C9: once a session is constructed, no load_raster, load_vector, load_point or
\* load call, succeeding or failing, changes its grid, its buckets, its
\* collection, its asset key or its load configuration
C9_LoadsLeaveSessionUnchanged ==
    [][pc = "ready" =>
          /\ pc' = "ready"
          /\ geobox' = geobox
          /\ collection_filter' = collection_filter
          /\ config' = config
          /\ collection' = collection
          /\ shape' = shape
          /\ asset_key' = asset_key]_vars

\* a load() that failed on a session that still has its buckets, grid and configuration
C9_Witness ==
    /\ pc = "ready"
    /\ call.op = "load"
    /\ result.status = "error"
    /\ collection_filter # EmptyFilter
    /\ geobox # NoGeobox
    /\ config # NoConfig

-----------------------------------------------------------------------------
(* Mccn._load_stac *)

HasXY(xx) == Has(xx, "x") /\ Has(xx, "y")

HasLonLat(xx) == Has(xx, "longitude") /\ Has(xx, "latitude")

\* C10: a _load_stac call whose dataset has neither x and y nor longitude and
\* latitude fails with the axis error and leaves bbox as it was; with one of the
\* pairs, bbox becomes [min_lon, min_lat, max_lon, max_lat] of the pair, of x and
\* y if both pairs are there
C10_BboxFromAxes ==
    [][stac'.error # "LoadError" =>
          /\ (~HasXY(stac'.xx) /\ ~HasLonLat(stac'.xx)) =>
                (stac'.status = "error" /\ stac'.error = "AttributeError" /\ bbox' = bbox)
          /\ HasXY(stac'.xx) =>
                /\ stac'.status = "ok"
                /\ bbox' = <<Min(stac'.xx["x"]), Min(stac'.xx["y"]),
                             Max(stac'.xx["x"]), Max(stac'.xx["y"])>>
          /\ (~HasXY(stac'.xx) /\ HasLonLat(stac'.xx)) =>
                /\ stac'.status = "ok"
                /\ bbox' = <<Min(stac'.xx["longitude"]), Min(stac'.xx["latitude"]),
                             Max(stac'.xx["longitude"]), Max(stac'.xx["latitude"])>>]_stacVars

\* a call that failed on the axes after an earlier call had set bbox
C10_Witness ==
    /\ stac.error = "AttributeError"
    /\ Has(stac.xx, "x")
    /\ Has(stac.xx, "latitude")
    /\ bbox # None

=============================================================================
